---- MODULE Spec2Model ----
(***************************************************************************)
(* fast-spatial-join: the point-location engine (PolygonFinder) and the    *)
(* streaming join (spatial_polygons_join).                                 *)
(*                                                                         *)
(* Coordinates are points of a small integer grid; x = longitude and       *)
(* y = latitude as in the source.  A polygon is its exterior ring, a       *)
(* convex counter-clockwise sequence of grid vertices.                      *)
(***************************************************************************)
EXTENDS Integers, Sequences, FiniteSets, TLC

\* ------------------------------------------------------------------ bounds
MaxCoord == 4
MaxRows == 2
MaxFeatures == 2
MaxThreads == 2

\* Option<T>: None is the empty sequence, Some(v) the one-element sequence
None == <<>>
Some(v) == <<v>>
is_some(o) == o # None
is_none(o) == o = None
unwrap(o) == o[1]

Coords == 0..MaxCoord
Points == Coords \X Coords

Min2(a, b) == IF a <= b THEN a ELSE b
Max2(a, b) == IF a >= b THEN a ELSE b

RECURSIVE SeqMin(_)
SeqMin(s) == IF Len(s) = 1 THEN s[1] ELSE Min2(s[1], SeqMin(Tail(s)))
RECURSIVE SeqMax(_)
SeqMax(s) == IF Len(s) = 1 THEN s[1] ELSE Max2(s[1], SeqMax(Tail(s)))

\* ------------------------------------------------------- geometry (Area)
\* enum Area { Polygon, MultiPolygon, Point }
Polygon(ring) == [kind |-> "Polygon", ring |-> ring]
MultiPolygon(polys) == [kind |-> "MultiPolygon", polys |-> polys]
Point(x, y) == [kind |-> "Point", x |-> x, y |-> y]

Rect(minx, miny, maxx, maxy) ==
    [min |-> <<minx, miny>>, max |-> <<maxx, maxy>>]

\* geo's bounding_rect of a ring: the extremes of its vertices
ring_bounding_rect(ring) ==
    LET xs == [i \in 1..Len(ring) |-> ring[i][1]]
        ys == [i \in 1..Len(ring) |-> ring[i][2]]
    IN  Rect(SeqMin(xs), SeqMin(ys), SeqMax(xs), SeqMax(ys))

rect_union(a, b) ==
    Rect(Min2(a.min[1], b.min[1]), Min2(a.min[2], b.min[2]),
         Max2(a.max[1], b.max[1]), Max2(a.max[2], b.max[2]))

RECURSIVE polys_bounding_rect(_)
polys_bounding_rect(polys) ==
    IF Len(polys) = 1 THEN ring_bounding_rect(polys[1])
    ELSE rect_union(ring_bounding_rect(polys[1]), polys_bounding_rect(Tail(polys)))

\* Area::mbr
mbr(area) ==
    CASE area.kind = "Polygon" -> ring_bounding_rect(area.ring)
      [] area.kind = "MultiPolygon" -> polys_bounding_rect(area.polys)
      [] area.kind = "Point" -> Rect(area.x, area.y, area.x, area.y)

Cross(a, b, p) ==
    (b[1] - a[1]) * (p[2] - a[2]) - (b[2] - a[2]) * (p[1] - a[1])

\* geo's Polygon::contains(Point): the point is in the interior of the ring
ring_contains(ring, p) ==
    \A i \in 1..Len(ring) :
        Cross(ring[i], ring[IF i = Len(ring) THEN 1 ELSE i + 1], p) > 0

\* Area::contains_exact
contains_exact(area, p) ==
    CASE area.kind = "Polygon" -> ring_contains(area.ring, p)
      [] area.kind = "MultiPolygon" ->
            \E i \in 1..Len(area.polys) : ring_contains(area.polys[i], p)
      [] area.kind = "Point" -> area.x = p[1] /\ area.y = p[2]

\* spade BoundingRect::contains_point
contains_point(bbox, p) ==
    /\ bbox.min[1] <= p[1] /\ p[1] <= bbox.max[1]
    /\ bbox.min[2] <= p[2] /\ p[2] <= bbox.max[2]

AxisGap(lo, hi, v) == IF v < lo THEN lo - v ELSE IF v > hi THEN v - hi ELSE 0

\* distance2 measured from the centre of the bounding box
distance2_center(bbox, p) ==
    LET dx == 2 * p[1] - (bbox.min[1] + bbox.max[1])
        dy == 2 * p[2] - (bbox.min[2] + bbox.max[2])
    IN  dx * dx + dy * dy

\* spade BoundingRect::distance2, used by IndexablePolygon::distance2
distance2(bbox, p) ==
    LET dx == AxisGap(bbox.min[1], bbox.max[1], p[1])
        dy == AxisGap(bbox.min[2], bbox.max[2], p[2])
    IN  dx * dx + dy * dy

\* IndexablePolygon { bbox, area, properties } as IndexablePolygon::new builds it
IndexablePolygon(area, properties) ==
    [bbox |-> mbr(area), area |-> area, properties |-> properties]

\* ----------------------------------------------------- the features used
RectFeature ==
    IndexablePolygon(Polygon(<<(<<0, 0>>), (<<4, 0>>), (<<4, 2>>), (<<0, 2>>)>>),
                     [k \in {"a"} |-> "x"])
TriFeature ==
    IndexablePolygon(Polygon(<<(<<2, 0>>), (<<4, 0>>), (<<4, 4>>)>>),
                     [k \in {"a", "b"} |-> IF k = "a" THEN "y" ELSE "7"])
PointFeature ==
    IndexablePolygon(Point(1, 3), [k \in {"b"} |-> "z"])
MultiFeature ==
    IndexablePolygon(
        MultiPolygon(<<(<<(<<0, 2>>), (<<2, 2>>), (<<2, 4>>), (<<0, 4>>)>>),
                       (<<(<<2, 2>>), (<<4, 2>>), (<<4, 4>>), (<<2, 4>>)>>)>>),
        [k \in {"c"} |-> "m"])

Catalogue == {RectFeature, TriFeature, PointFeature, MultiFeature}

\* neighbors_tests: 10 after new_from_string; any value after deserialization
DefaultNeighborsTests == 10
NeighborsTestsSet == {0, 1, 2, DefaultNeighborsTests}

\* --------------------------------------------------------------- state
VARIABLES
    tree,             \* PolygonFinder.tree: the indexed features
    neighbors_tests,  \* PolygonFinder.neighbors_tests
    query,            \* the last find_by_point call: its point, candidates and outcome
    latitude_idx, longitude_idx, properties, no_header, write_status,
    pc,               \* position in spatial_polygons_join
    input,            \* the items csv_reader.records() has yielded so far
    output,           \* the records csv_writer has accepted
    total_lines, error_lines,
    header,           \* what the header step did with the first item
    last,             \* the last loop iteration: the item, the lookup, the record written
    failures,         \* the first failed header write and the first failed row write
    flushed,
    stats,            \* the value spatial_polygons_join returned
    geojson_file,     \* the GeoJSON file of the run: its document, or None when it cannot be opened
    index_file,       \* the index file on disk: its content, or None when there is none
    run,              \* the last run of the tool: the command, what it did, its exit code
    threads           \* the find calls in progress, one per thread sharing the index

index == <<tree, neighbors_tests>>
args == <<latitude_idx, longitude_idx, properties, no_header, write_status>>
join == <<pc, input, output, total_lines, error_lines, header, last, failures,
          flushed, stats>>
tool == <<geojson_file, index_file, run>>
vars == <<index, query, args, join, tool, threads>>

\* --------------------------------------------------- PolygonFinder::find
Range(s) == {s[i] : i \in 1..Len(s)}

\* nearest_n_neighbors returning one object less than asked for
nearest_n_neighbors_short(t, point, n) ==
    LET m == Min2(Max2(n - 1, 0), Cardinality(t))
    IN  {s \in [1..m -> t] :
            /\ \A i, j \in 1..m : i < j =>
                  /\ s[i] # s[j]
                  /\ distance2(s[i].bbox, point) <= distance2(s[j].bbox, point)
            /\ \A f \in t \ Range(s) : \A i \in 1..m :
                  distance2(s[i].bbox, point) <= distance2(f.bbox, point)}

\* spade RTree::nearest_n_neighbors: the n objects nearest to the point by
\* distance2, nearest first; the order among equal distances is the tree's
nearest_n_neighbors(t, point, n) ==
    LET m == Min2(n, Cardinality(t))
    IN  {s \in [1..m -> t] :
            /\ \A i, j \in 1..m : i < j =>
                  /\ s[i] # s[j]
                  /\ distance2(s[i].bbox, point) <= distance2(s[j].bbox, point)
            /\ \A f \in t \ Range(s) : \A i \in 1..m :
                  distance2(s[i].bbox, point) <= distance2(f.bbox, point)}

FindOutcome(result, feature, checks, tests) ==
    [result |-> result, feature |-> feature, mbr_checks |-> checks,
     exact_tests |-> tests]

RECURSIVE find_loop(_, _, _, _, _)
find_loop(results, i, point, checks, tests) ==
    IF i > Len(results) THEN FindOutcome(None, None, checks, tests)
    ELSE IF ~contains_point(results[i].bbox, point)
         THEN FindOutcome(None, None, checks + 1, tests)
    ELSE IF contains_exact(results[i].area, point)
         THEN FindOutcome(Some([props |-> results[i].properties, distance |-> 0]),
                          Some(results[i]), checks + 1, tests + 1)
    ELSE find_loop(results, i + 1, point, checks + 1, tests + 1)

\* find_by_point returning the first candidate whose bounding box holds the point
find_by_point_bbox_only(results, point) ==
    IF Len(results) > 0 /\ contains_point(results[1].bbox, point)
    THEN FindOutcome(Some([props |-> results[1].properties, distance |-> 0]),
                     Some(results[1]), 1, 0)
    ELSE FindOutcome(None, None, Min2(Len(results), 1), 0)

RECURSIVE find_loop_continue(_, _, _, _, _)
find_loop_continue(results, i, point, checks, tests) ==
    IF i > Len(results) THEN FindOutcome(None, None, checks, tests)
    ELSE IF ~contains_point(results[i].bbox, point)
         THEN find_loop_continue(results, i + 1, point, checks + 1, tests)
    ELSE IF contains_exact(results[i].area, point)
         THEN FindOutcome(Some([props |-> results[i].properties, distance |-> 0]),
                          Some(results[i]), checks + 1, tests + 1)
    ELSE find_loop_continue(results, i + 1, point, checks + 1, tests + 1)

\* find_by_point skipping a candidate whose bounding box misses the point
find_by_point_continue(results, point) == find_loop_continue(results, 1, point, 0, 0)

\* PolygonFinder::find_by_point over the candidates nearest_n_neighbors returned;
\* the outcome also counts the bounding-box checks and the exact tests made
find_by_point(results, point) == find_loop(results, 1, point, 0, 0)

\* PolygonFinder::find
find(results, latitude, longitude) == find_by_point(results, <<longitude, latitude>>)

\* FindByPoint: one call of find_by_point on the index, for any point
FindByPoint ==
    /\ \E point \in Points :
         \E results \in nearest_n_neighbors(tree, point, neighbors_tests) :
            query' = Some([point |-> point, results |-> results,
                           out |-> find_by_point(results, point)])
    /\ UNCHANGED <<tool, threads, index, args, join>>

\* Find: one call of find(latitude, longitude)
Find ==
    /\ \E latitude \in Coords, longitude \in Coords :
         \E results \in nearest_n_neighbors(tree, <<longitude, latitude>>,
                                            neighbors_tests) :
            query' = Some([point |-> <<longitude, latitude>>, results |-> results,
                           out |-> find(results, latitude, longitude)])
    /\ UNCHANGED <<tool, threads, index, args, join>>

\* ------------------------------------------------ spatial_polygons_join
EMPTY_PROPERTY_VALUE == ""
DEFAULT_PROPERTY_VALUE == "-"

\* str::parse::<f64> on the field texts used here
F64Text == {"0", "1", "2", "3", "4", "1.0"}
F64Value(v) == CASE v = "0" -> 0 [] v = "1" -> 1 [] v = "2" -> 2
                 [] v = "3" -> 3 [] v = "4" -> 4 [] v = "1.0" -> 1
parse_f64(v) == IF v \in F64Text THEN Some(F64Value(v)) ELSE None

\* StringRecord::get with a zero-based index
get(record, idx) == IF idx < Len(record) THEN Some(record[idx + 1]) ELSE None

\* record.get(idx).and_then(|v| v.parse::<f64>().ok())
coordinate_opt(record, idx) ==
    IF is_some(get(record, idx)) THEN parse_f64(unwrap(get(record, idx))) ELSE None

\* fill_error_row: one empty field per property, then the status "error"
fill_error_row(props, new_record) ==
    new_record \o [i \in 1..Len(props) |-> ""] \o <<"error">>

\* new_header appending "status" whether or not write_status is set
new_header_always_status(first, props, with_status) == first \o props \o <<"status">>

\* the header step: the first record with the properties and "status" appended
new_header(first, props, with_status) ==
    first \o props \o (IF with_status THEN <<"status">> ELSE <<>>)

\* the Some(find_result) arm: one field per property, then "success"
hit_row(new_record, found_props, props, with_status) ==
    new_record
      \o [i \in 1..Len(props) |->
            IF props[i] \in DOMAIN found_props THEN found_props[props[i]]
            ELSE DEFAULT_PROPERTY_VALUE]
      \o (IF with_status THEN <<"success">> ELSE <<>>)

\* the None arm filling the row whether or not write_status is set
miss_row_filled(new_record, props, with_status) == fill_error_row(props, new_record)

\* the None arm
miss_row(new_record, props, with_status) ==
    IF with_status THEN fill_error_row(props, new_record) ELSE new_record

\* the invalid-coordinates arm
invalid_coordinates_row(new_record, props, with_status) ==
    fill_error_row(props, new_record)

\* write_record putting the record before the ones already written
write_record_front(out, record, ok) == IF ok THEN <<record>> \o out ELSE out

\* csv_writer.write_record: the record reaches the output unless the write fails
write_record(out, record, ok) == IF ok THEN Append(out, record) ELSE out

\* the exit test never leaving the loop
after_write_continue(write_ok) == "loop"

\* the loop's exit test after the write
after_write(write_ok) == IF write_ok THEN "loop" ELSE "break"

\* total_lines += 1 and error_lines += 1 on the u32 counters of ProcessStats;
\* a run of at most MaxRows rows stays far below 2^32, where they would wrap
count_line(n) == n + 1

\* what csv_reader.records() can yield: a record, or an error for a row it
\* could not decode (fields is then the row's undecodable text, which the code
\* never sees)
OkItem(fields) == [ok |-> TRUE, fields |-> fields]
ErrItem == [ok |-> FALSE, fields |-> <<"1", "\\xFF">>]
Items == {OkItem(<<"1", "3">>), OkItem(<<"3", "2", "foo">>),
          OkItem(<<"notanum", "3">>), OkItem(<<"1">>),
          OkItem(<<"1.0", "1">>), ErrItem}

NoFailures == [header |-> None, row |-> None]
Snapshot(total, errors, consumed) ==
    [total_lines |-> total, error_lines |-> errors, consumed |-> consumed]

\* lines 85-105: with a header, the first item is taken from the reader and,
\* when it is a record, written back extended; a failed write is ignored
Header ==
    /\ pc = "header"
    /\ pc' = "loop"
    /\ IF no_header
       THEN UNCHANGED <<input, output, header, failures>>
       ELSE \E next \in {None} \cup {Some(i) : i \in Items}, write_ok \in BOOLEAN :
              IF is_none(next)
              THEN /\ write_ok
                   /\ header' = "empty"
                   /\ UNCHANGED <<input, output, failures>>
              ELSE /\ input' = Append(input, unwrap(next))
                   /\ IF unwrap(next).ok
                      THEN /\ output' = write_record(output,
                                  new_header(unwrap(next).fields, properties, write_status),
                                  write_ok)
                           /\ header' = IF write_ok THEN "written" ELSE "lost"
                           /\ failures' =
                                 IF write_ok THEN failures
                                 ELSE [failures EXCEPT !.header = Some(Snapshot(0, 0, 1))]
                      ELSE /\ write_ok
                           /\ header' = "unreadable"
                           /\ UNCHANGED <<output, failures>>
    /\ UNCHANGED <<tool, threads, index, query, args, total_lines, error_lines, last, flushed, stats>>

\* join_row not counting a row with invalid coordinates as an error
join_row_uncounted(record, invalid, found) ==
    IF invalid
    THEN [new_record |-> fill_error_row(properties, record), errors |-> 0]
    ELSE IF is_some(found)
    THEN [new_record |-> hit_row(record, unwrap(found).props, properties, write_status),
          errors |-> 0]
    ELSE [new_record |-> miss_row(record, properties, write_status), errors |-> 1]

\* lines 117-164: the record to write for a parsed row and whether the row
\* counts as an error; found is the result of geo_finder.find
join_row(record, invalid, found) ==
    IF invalid
    THEN [new_record |-> invalid_coordinates_row(record, properties, write_status),
          errors |-> 1]
    ELSE IF is_some(found)
    THEN [new_record |-> hit_row(record, unwrap(found).props, properties, write_status),
          errors |-> 0]
    ELSE [new_record |-> miss_row(record, properties, write_status), errors |-> 1]

\* lines 107-178: one iteration of the loop over csv_reader.records()
Iterate ==
    /\ pc = "loop"
    /\ header # "empty"            \* the reader had items left at the header step
    /\ Len(input) < MaxRows
    /\ \E item \in Items, write_ok \in BOOLEAN :
         LET record == item.fields
             latitude_opt == coordinate_opt(record, latitude_idx)
             longitude_opt == coordinate_opt(record, longitude_idx)
             invalid == is_none(latitude_opt) \/ is_none(longitude_opt)
             lookup == item.ok /\ ~invalid
         IN  \E results \in
                 (IF lookup
                  THEN nearest_n_neighbors(tree,
                          <<unwrap(longitude_opt), unwrap(latitude_opt)>>, neighbors_tests)
                  ELSE {<<>>}) :
               LET found == IF lookup
                            THEN find(results, unwrap(latitude_opt),
                                      unwrap(longitude_opt)).result
                            ELSE None
                   row == join_row(record, invalid, found)
                   errors == IF item.ok THEN row.errors ELSE 1
                   total_after == count_line(total_lines)
                   errors_after == IF errors = 1 THEN count_line(error_lines) ELSE error_lines
               IN  /\ input' = Append(input, item)
                   /\ total_lines' = total_after
                   /\ error_lines' = errors_after
                   /\ IF item.ok
                      THEN /\ output' = write_record(output, row.new_record, write_ok)
                           /\ pc' = after_write(write_ok)
                           /\ failures' =
                                 IF write_ok \/ is_some(failures.row) THEN failures
                                 ELSE [failures EXCEPT !.row =
                                         Some(Snapshot(total_after, errors_after,
                                                       Len(input) + 1))]
                      ELSE /\ write_ok
                           /\ pc' = "loop"
                           /\ UNCHANGED <<output, failures>>
                   /\ last' = Some([item |-> item, invalid |-> invalid, lookup |-> lookup,
                                    found |-> found, results |-> results,
                                    new_record |-> IF item.ok THEN row.new_record ELSE <<>>,
                                    write_ok |-> write_ok,
                                    errors_before |-> error_lines,
                                    total_before |-> total_lines])
    /\ UNCHANGED <<tool, threads, index, query, args, header, flushed, stats>>

\* Return with the two counters of ProcessStats exchanged
ReturnSwapped ==
    /\ pc \in {"loop", "break"}
    /\ pc' = "done"
    /\ flushed' = TRUE
    /\ stats' = Some([total_lines |-> error_lines, error_lines |-> total_lines])
    /\ UNCHANGED <<tool, threads, index, query, args, input, output, total_lines, error_lines,
                   header, last, failures>>

\* lines 180-199: at the end of the input or after the break, flush and return
Return ==
    /\ pc \in {"loop", "break"}
    /\ pc' = "done"
    /\ flushed' = TRUE
    /\ stats' = Some([total_lines |-> total_lines, error_lines |-> error_lines])
    /\ UNCHANGED <<tool, threads, index, query, args, input, output, total_lines, error_lines,
                   header, last, failures>>

\* ------------------------------------------------------- specifications
PropLists == {<<"a">>, <<"a", "b">>, <<"b", "a">>}
IdxPairs == {<<0, 1>>, <<1, 0>>}
JoinTrees == {{}, {RectFeature}, {RectFeature, TriFeature}, Catalogue}

\* no run of the tool and no find call in progress
ToolIdle ==
    /\ geojson_file = None
    /\ index_file = None
    /\ run = None
    /\ threads = <<>>

\* the locals of spatial_polygons_join before its first step
JoinIdle ==
    /\ pc = "header"
    /\ input = <<>>
    /\ output = <<>>
    /\ total_lines = 0
    /\ error_lines = 0
    /\ header = "none"
    /\ last = None
    /\ failures = NoFailures
    /\ flushed = FALSE
    /\ stats = None

JoinStart == ToolIdle /\ JoinIdle

\* a join run over an index that was built (neighbors_tests = 10) or loaded
Init ==
    /\ tree \in JoinTrees
    /\ neighbors_tests \in {1, DefaultNeighborsTests}
    /\ query = None
    /\ \E idx \in IdxPairs : latitude_idx = idx[1] /\ longitude_idx = idx[2]
    /\ properties \in PropLists
    /\ no_header \in BOOLEAN
    /\ write_status \in BOOLEAN
    /\ JoinStart

Next == Header \/ Iterate \/ Return

Spec == Init /\ [][Next]_vars

\* queries on an index that was built or loaded
InitFind ==
    /\ tree \in SUBSET Catalogue
    /\ neighbors_tests \in NeighborsTestsSet
    /\ query = None
    /\ latitude_idx = 0
    /\ longitude_idx = 1
    /\ properties = <<"a">>
    /\ no_header = FALSE
    /\ write_status = FALSE
    /\ JoinStart

NextFind == FindByPoint \/ Find

FindSpec == InitFind /\ [][NextFind]_vars

\* ------------------------------------------------------------ find claims
QueryPoint == unwrap(query).point
QueryOut == unwrap(query).out

\* C1: whenever find returns a hit, some feature f of the index has the point
\* inside its MBR and exactly inside its geometry, and the hit carries exactly
\* f's property map with distance 0.
FindSoundness ==
    (is_some(query) /\ is_some(QueryOut.result)) =>
        \E f \in tree :
            /\ contains_point(mbr(f.area), QueryPoint)
            /\ contains_exact(f.area, QueryPoint)
            /\ unwrap(QueryOut.result).props = f.properties
            /\ unwrap(QueryOut.result).distance = 0

\* C1 witness: a hit that was returned after an earlier candidate's bounding box
\* held the point and its geometry did not
FindSoundnessWitness ==
    /\ is_some(query)
    /\ is_some(QueryOut.result)
    /\ QueryOut.exact_tests = 2

\* C2: when every feature's MBR excludes the point, find returns None after at
\* most neighbors_tests bounding-box checks (the first one ends the search) and
\* without any exact containment test.
FindOutsideEveryMbr ==
    (is_some(query) /\ \A f \in tree : ~contains_point(mbr(f.area), QueryPoint)) =>
        /\ is_none(QueryOut.result)
        /\ QueryOut.mbr_checks <= neighbors_tests
        /\ QueryOut.mbr_checks <= 1
        /\ QueryOut.exact_tests = 0

\* C2 witness: a point outside the MBR of each of several features, with a
\* fan-out above one, ended by the first bounding-box check
FindOutsideEveryMbrWitness ==
    /\ is_some(query)
    /\ Cardinality(tree) >= 2
    /\ neighbors_tests >= 2
    /\ \A f \in tree : ~contains_point(mbr(f.area), QueryPoint)
    /\ QueryOut.mbr_checks = 1

\* ------------------------------------------------------------ join claims
\* the items read after the header step took its item, and the output rows
\* after the header row
DataItems == IF header \in {"written", "lost", "unreadable"} THEN Tail(input) ELSE input
DataOut == IF header = "written" THEN Tail(output) ELSE output
IsOk(item) == item.ok
OkData == SelectSeq(DataItems, IsOk)
LeadingFieldsAre(row, fields) ==
    Len(row) >= Len(fields) /\ SubSeq(row, 1, Len(fields)) = fields
EmptyFields(n) == [i \in 1..n |-> ""]
StatusField(text) == IF write_status THEN <<text>> ELSE <<>>
LastRow == unwrap(last)
LastRecord == LastRow.item.fields
FieldIsNumber(record, idx) == idx < Len(record) /\ record[idx + 1] \in F64Text
LastHasCoordinates ==
    FieldIsNumber(LastRecord, latitude_idx) /\ FieldIsNumber(LastRecord, longitude_idx)
LastPoint ==
    <<F64Value(LastRecord[longitude_idx + 1]), F64Value(LastRecord[latitude_idx + 1])>>

\* C3 as stated: output data row i carries the fields of input data row i.
RowOrderEveryRow ==
    \A i \in 1..Len(DataOut) :
        i <= Len(DataItems) /\ LeadingFieldsAre(DataOut[i], DataItems[i].fields)

\* C3 amended: output data row i carries the fields of the i-th input data row
\* that the reader could parse (a row that fails to parse has no output row);
\* the rows are neither reordered nor duplicated, and only a failed write can
\* leave the last parsed row without its output row.
RowOrderParsedRows ==
    /\ Len(DataOut) = Len(OkData) - (IF is_some(failures.row) THEN 1 ELSE 0)
    /\ \A i \in 1..Len(DataOut) : LeadingFieldsAre(DataOut[i], OkData[i].fields)

\* C3 witness: a row that failed to parse was followed by a row that was
\* written, which is then the first output row
RowOrderWitness ==
    /\ Len(DataItems) = 2
    /\ ~DataItems[1].ok
    /\ DataItems[2].ok
    /\ Len(DataOut) = 1

\* C4: error_lines never exceeds total_lines, total_lines is the number of
\* data rows taken from the input (the header row is not counted), and the
\* returned ProcessStats carries these two counters.
StatsInvariant ==
    /\ error_lines <= total_lines
    /\ total_lines = Len(DataItems)
    /\ is_some(stats) =>
          /\ unwrap(stats).error_lines <= unwrap(stats).total_lines
          /\ unwrap(stats).total_lines = Len(DataItems)
          /\ unwrap(stats).error_lines = error_lines

\* C4 witness: a run with a header row has returned having counted one data
\* row, which was not an error
StatsWitness ==
    /\ pc = "done"
    /\ header = "written"
    /\ Len(input) = 2
    /\ unwrap(stats).total_lines = 1
    /\ unwrap(stats).error_lines = 0

\* C5 as stated: a parsed row whose latitude or longitude is missing or is no
\* number counts one error and is written with one empty field per property
\* and the status "error" exactly when write_status is set; unless that write
\* fails, the loop goes on.
CoordinateErrorRow ==
    (is_some(last) /\ LastRow.item.ok /\ ~LastHasCoordinates) =>
        /\ error_lines = LastRow.errors_before + 1
        /\ LastRow.new_record =
              LastRecord \o EmptyFields(Len(properties)) \o StatusField("error")
        /\ LastRow.write_ok => pc \in {"loop", "done"}

\* C6: a row with valid coordinates that find does not locate counts one error;
\* with write_status it is written with one empty field per property and
\* "error", without write_status it is written unchanged.
MissRow ==
    (is_some(last) /\ LastRow.item.ok /\ LastHasCoordinates
       /\ is_none(find_by_point(LastRow.results, LastPoint).result)) =>
        /\ error_lines = LastRow.errors_before + 1
        /\ LastRow.new_record =
              IF write_status
              THEN LastRecord \o EmptyFields(Len(properties)) \o <<"error">>
              ELSE LastRecord

\* C6 witness: a miss written unchanged because write_status is not set, for a
\* point inside some feature's bounding box
MissRowWitness ==
    /\ is_some(last)
    /\ LastRow.item.ok
    /\ LastHasCoordinates
    /\ is_none(LastRow.found)
    /\ ~write_status
    /\ LastRow.write_ok
    /\ \E f \in tree : contains_point(f.bbox, LastPoint)
    /\ output # <<>>
    /\ output[Len(output)] = LastRecord

\* C7: a row whose point (x = longitude, y = latitude) is found in feature f is
\* written followed by one field per requested property, in the requested
\* order, holding f's value or "-" when f has no such key, then "success"
\* exactly when write_status is set; it does not count as an error.
HitRow ==
    (is_some(last) /\ LastRow.item.ok /\ LastHasCoordinates
       /\ is_some(find_by_point(LastRow.results, LastPoint).result)) =>
        /\ error_lines = LastRow.errors_before
        /\ \E f \in tree :
             /\ contains_exact(f.area, LastPoint)
             /\ Len(LastRow.new_record) =
                   Len(LastRecord) + Len(properties) + (IF write_status THEN 1 ELSE 0)
             /\ LeadingFieldsAre(LastRow.new_record, LastRecord)
             /\ \A i \in 1..Len(properties) :
                   LastRow.new_record[Len(LastRecord) + i] =
                      IF properties[i] \in DOMAIN f.properties
                      THEN f.properties[properties[i]] ELSE "-"
             /\ write_status =>
                   LastRow.new_record[Len(LastRow.new_record)] = "success"

\* C7 witness: the feature carries a and not b, a and b were requested, and the
\* row received "x" and "-"
HitRowWitness ==
    /\ is_some(last)
    /\ is_some(LastRow.found)
    /\ properties = <<"a", "b">>
    /\ write_status
    /\ LastRow.write_ok
    /\ output[Len(output)] = LastRecord \o <<"x", "-", "success">>

\* C8 as stated: with a header, the first input row is written back extended,
\* whatever that row is.
HeaderRowEveryInput ==
    (~no_header /\ pc # "header" /\ input # <<>>) =>
        /\ header \in {"written", "lost"}
        /\ header = "written" =>
              /\ output # <<>>
              /\ output[1] = input[1].fields \o properties \o StatusField("status")

\* C8 amended: with a header, a first input row that parses is handed to the
\* writer once, before any data row, extended by the requested properties in
\* order and by "status" when write_status is set, and is not counted; a first
\* row that fails to parse is dropped, uncounted, and no header row is
\* written; without a header no header row is written and the first input row
\* is counted and processed as data.
HeaderRow ==
    /\ no_header =>
          /\ header = "none"
          /\ total_lines = Len(input)
          /\ Len(output) <= Len(SelectSeq(input, IsOk))
    /\ (~no_header /\ pc # "header" /\ input # <<>>) =>
          /\ total_lines = Len(input) - 1
          /\ IF input[1].ok
             THEN /\ header \in {"written", "lost"}
                  /\ Len(output) <= Len(SelectSeq(Tail(input), IsOk))
                                      + (IF header = "written" THEN 1 ELSE 0)
                  /\ header = "written" =>
                        /\ output # <<>>
                        /\ output[1] =
                              input[1].fields \o properties \o StatusField("status")
             ELSE /\ header = "unreadable"
                  /\ Len(output) <= Len(SelectSeq(Tail(input), IsOk))

\* C8 witness: the header row went out first with a, b and status appended, and
\* a data row followed it
HeaderRowWitness ==
    /\ header = "written"
    /\ properties = <<"a", "b">>
    /\ write_status
    /\ Len(output) = 2
    /\ output[1] = input[1].fields \o <<"a", "b", "status">>
    /\ total_lines = 1

NoRowsAfter(failure) ==
    is_some(failure) =>
        /\ total_lines = unwrap(failure).total_lines
        /\ error_lines = unwrap(failure).error_lines
        /\ Len(input) = unwrap(failure).consumed
ReturnsStats ==
    pc = "done" =>
        /\ flushed
        /\ stats = Some([total_lines |-> total_lines, error_lines |-> error_lines])

\* C9 as stated: after any failed write, the header's included, no further
\* input row is processed or counted; the writer is flushed and the stats are
\* returned.
AnyWriteFailureEndsLoop ==
    /\ NoRowsAfter(failures.header)
    /\ NoRowsAfter(failures.row)
    /\ ReturnsStats

\* C9 amended: after a failed write of a data row the loop ends and no further
\* input row is processed or counted; the writer is still flushed and the stats
\* are returned without the error.  (A failed write of the header row is
\* ignored and the data rows are processed.)
RowWriteFailureEndsLoop ==
    /\ NoRowsAfter(failures.row)
    /\ is_some(failures.row) => pc \in {"break", "done"}
    /\ pc = "break" => is_some(failures.row)
    /\ ReturnsStats

\* C9 witness: the run returned after the write of its first data row failed,
\* with input left unread
RowWriteFailureWitness ==
    /\ is_some(failures.row)
    /\ pc = "done"
    /\ flushed
    /\ is_some(stats)
    /\ Len(DataItems) = 1
    /\ Len(input) < MaxRows

IsErrorItem(item) ==
    \/ ~item.ok
    \/ ~(FieldIsNumber(item.fields, latitude_idx)
           /\ FieldIsNumber(item.fields, longitude_idx))
ErrorItemCount == Cardinality({i \in 1..Len(DataItems) : IsErrorItem(DataItems[i])})

\* C10 as stated: a data row that fails to parse or has invalid coordinates is
\* counted in error_lines and the loop never ends at it; the join returns Ok.
ErrorRowNeverEndsLoop ==
    /\ error_lines >= ErrorItemCount
    /\ (is_some(last) /\ IsErrorItem(LastRow.item)) =>
          /\ error_lines = LastRow.errors_before + 1
          /\ pc # "break"
    /\ pc = "done" => is_some(stats)

\* C10 amended: a data row that fails to parse or has invalid coordinates is
\* counted in error_lines and the loop goes on to the next row unless the write
\* of that row's output fails; the join returns Ok with the counters.
ErrorRowEndsLoopOnlyByWrite ==
    /\ error_lines >= ErrorItemCount
    /\ (is_some(last) /\ IsErrorItem(LastRow.item)) =>
          /\ error_lines = LastRow.errors_before + 1
          /\ (LastRow.write_ok => pc # "break")
    /\ pc = "done" => is_some(stats)

\* C10 witness: after a row with invalid coordinates, the next row was located
\* and written, and the join returned one error in two rows
ErrorRowWitness ==
    /\ pc = "done"
    /\ Len(DataItems) = 2
    /\ DataItems[1].ok
    /\ IsErrorItem(DataItems[1])
    /\ is_some(LastRow.found)
    /\ Len(DataOut) = 2
    /\ unwrap(stats) = [total_lines |-> 2, error_lines |-> 1]

\* ------------------------------------------------- building the index
\* Result<T, E>: Ok(v) and Err(e)
Ok(v) == [ok |-> Some(v), err |-> None]
Err(e) == [ok |-> None, err |-> Some(e)]
is_ok(r) == is_some(r.ok)
is_err(r) == is_some(r.err)

\* PolygonFinderError: the variant and, for InvalidProperty, the offending value
PolygonFinderError(kind, detail) == [kind |-> kind, detail |-> detail]

\* serde_json::Value as a property value
JString(s) == [t |-> "String", s |-> s, n |-> 0]
JNumber(n) == [t |-> "Number", s |-> "", n |-> n]
JBool(b) == [t |-> "Bool", s |-> IF b THEN "true" ELSE "false", n |-> 0]

Digit(d) ==
    CASE d = 0 -> "0" [] d = 1 -> "1" [] d = 2 -> "2" [] d = 3 -> "3" [] d = 4 -> "4"
      [] d = 5 -> "5" [] d = 6 -> "6" [] d = 7 -> "7" [] d = 8 -> "8" [] d = 9 -> "9"

\* serde_json::Number::to_string on a non-negative integer
RECURSIVE number_to_string(_)
number_to_string(n) ==
    IF n < 10 THEN Digit(n) ELSE number_to_string(n \div 10) \o Digit(n % 10)

\* geojson::Geometry: its type, its coordinates as an Area when they have the
\* shape the type asks for, and whether they have
Geometry(type, area, coords_ok) == [type |-> type, area |-> area, coords_ok |-> coords_ok]
\* geojson::Feature
Feature(geometry, props) == [geometry |-> geometry, properties |-> props]

\* Area::mbr as an Option: a geometry without vertices has no bounding rect
mbr_opt(area) ==
    IF \/ (area.kind = "Polygon" /\ area.ring = <<>>)
       \/ (area.kind = "MultiPolygon" /\ area.polys = <<>>)
    THEN None ELSE Some(mbr(area))

\* the error of the try_into of each accepted geometry type
InvalidGeometryKind(type) ==
    CASE type = "Polygon" -> "InvalidPolygon"
      [] type = "MultiPolygon" -> "InvalidMultiPolygon"
      [] type = "Point" -> "InvalidPoint"

\* lines 152-165 keeping every number as the empty string
convert_properties_numbers_blank(properties_json) ==
    LET bad == {k \in DOMAIN properties_json :
                   properties_json[k].t \notin {"String", "Number"}}
    IN  IF bad # {}
        THEN Err(PolygonFinderError("InvalidProperty",
                                    properties_json[CHOOSE k \in bad : TRUE].s))
        ELSE Ok([k \in DOMAIN properties_json |-> properties_json[k].s])

\* lines 152-165: strings are kept, numbers become their text, any other value
\* rejects the feature
convert_properties(properties_json) ==
    LET bad == {k \in DOMAIN properties_json :
                   properties_json[k].t \notin {"String", "Number"}}
    IN  IF bad # {}
        THEN Err(PolygonFinderError("InvalidProperty",
                                    properties_json[CHOOSE k \in bad : TRUE].s))
        ELSE Ok([k \in DOMAIN properties_json |->
                    IF properties_json[k].t = "String" THEN properties_json[k].s
                    ELSE number_to_string(properties_json[k].n)])

\* feature.properties.unwrap_or_default()
unwrap_or_default(props) == IF is_some(props) THEN unwrap(props) ELSE [k \in {} |-> JString("")]

\* IndexablePolygon::new
IndexablePolygon_new(feature) ==
    IF is_none(feature.geometry)
    THEN Err(PolygonFinderError("GeometryNotFound", ""))
    ELSE LET geometry == unwrap(feature.geometry)
         IN  IF geometry.type \notin {"Polygon", "MultiPolygon", "Point"}
             THEN Err(PolygonFinderError("InvalidFeature", ""))
             ELSE IF ~geometry.coords_ok
             THEN Err(PolygonFinderError(InvalidGeometryKind(geometry.type), ""))
             ELSE IF is_none(mbr_opt(geometry.area))
             THEN Err(PolygonFinderError("GeometryNotFound", ""))
             ELSE LET props == convert_properties(unwrap_or_default(feature.properties))
                  IN  IF is_err(props) THEN Err(unwrap(props.err))
                      ELSE Ok(IndexablePolygon(geometry.area, unwrap(props.ok)))

\* collect::<Result<Vec<_>, _>>() keeping the features that were accepted
RECURSIVE collect_accepted(_)
collect_accepted(features) ==
    IF features = <<>> THEN Ok(<<>>)
    ELSE LET first == IndexablePolygon_new(Head(features))
             others == collect_accepted(Tail(features))
         IN  IF is_err(first) THEN others
             ELSE Ok(<<unwrap(first.ok)>> \o unwrap(others.ok))

\* .map(IndexablePolygon::new).collect::<Result<Vec<_>, _>>(): the indexable
\* features in order, or the error of the first feature that has one
RECURSIVE collect(_)
collect(features) ==
    IF features = <<>> THEN Ok(<<>>)
    ELSE LET first == IndexablePolygon_new(Head(features))
         IN  IF is_err(first) THEN Err(unwrap(first.err))
             ELSE LET others == collect(Tail(features))
                  IN  IF is_err(others) THEN others
                      ELSE Ok(<<unwrap(first.ok)>> \o unwrap(others.ok))

\* RTree::bulk_load: the tree holds the objects it was given
bulk_load(polygons) == polygons

\* PolygonFinder { tree, neighbors_tests }
PolygonFinder(t, n) == [tree |-> t, neighbors_tests |-> n]

\* the parsed text: "Malformed" when it is no JSON, else the GeoJson variant
Document(kind, features) == [kind |-> kind, features |-> features]

\* new_from_string answering FeatureCollectionNotFound for a text that is no JSON
new_from_string_one_error(geo_json) ==
    IF geo_json.kind # "FeatureCollection"
    THEN Err(PolygonFinderError("FeatureCollectionNotFound", ""))
    ELSE LET polygons == collect(geo_json.features)
         IN  IF is_err(polygons) THEN polygons
             ELSE Ok(PolygonFinder(bulk_load(unwrap(polygons.ok)), DefaultNeighborsTests))

\* new_from_string indexing the features that were accepted
new_from_string_partial(geo_json) ==
    IF geo_json.kind = "Malformed" THEN Err(PolygonFinderError("Parse", ""))
    ELSE IF geo_json.kind # "FeatureCollection"
    THEN Err(PolygonFinderError("FeatureCollectionNotFound", ""))
    ELSE Ok(PolygonFinder(bulk_load(unwrap(collect_accepted(geo_json.features).ok)),
                          DefaultNeighborsTests))

\* PolygonFinder::new_from_string
new_from_string(geo_json) ==
    IF geo_json.kind = "Malformed" THEN Err(PolygonFinderError("Parse", ""))
    ELSE IF geo_json.kind # "FeatureCollection"
    THEN Err(PolygonFinderError("FeatureCollectionNotFound", ""))
    ELSE LET polygons == collect(geo_json.features)
         IN  IF is_err(polygons) THEN polygons
             ELSE Ok(PolygonFinder(bulk_load(unwrap(polygons.ok)), DefaultNeighborsTests))

\* ------------------------------------------------- the documents used
RawRect ==
    Feature(Some(Geometry("Polygon", RectFeature.area, TRUE)),
            Some([k \in {"a"} |-> JString("x")]))
RawTri ==
    Feature(Some(Geometry("Polygon", TriFeature.area, TRUE)),
            Some([k \in {"a", "b"} |-> IF k = "a" THEN JString("y") ELSE JNumber(7)]))
RawPoint ==
    Feature(Some(Geometry("Point", PointFeature.area, TRUE)),
            Some([k \in {"b"} |-> JString("z")]))
RawMulti ==
    Feature(Some(Geometry("MultiPolygon", MultiFeature.area, TRUE)),
            Some([k \in {"c"} |-> JString("m")]))
RawZip ==
    Feature(Some(Geometry("Point", Point(4, 4), TRUE)),
            Some([k \in {"zip", "state"} |->
                    IF k = "zip" THEN JNumber(28989) ELSE JString("col")]))
RawNoProperties == Feature(Some(Geometry("Point", Point(0, 4), TRUE)), None)
RawNoGeometry == Feature(None, Some([k \in {"a"} |-> JString("x")]))
RawLineString ==
    Feature(Some(Geometry("LineString", Point(0, 0), TRUE)),
            Some([k \in {"a"} |-> JString("x")]))
RawBadCoordinates ==
    Feature(Some(Geometry("Polygon", Polygon(<<>>), FALSE)),
            Some([k \in {"a"} |-> JString("x")]))
RawEmptyPolygon ==
    Feature(Some(Geometry("Polygon", Polygon(<<>>), TRUE)),
            Some([k \in {"a"} |-> JString("x")]))
RawBadProperty ==
    Feature(Some(Geometry("Polygon", RectFeature.area, TRUE)),
            Some([k \in {"a", "b"} |-> IF k = "a" THEN JString("x") ELSE JBool(TRUE)]))

ValidFeatures == {RawRect, RawTri, RawPoint, RawMulti, RawZip, RawNoProperties}
RejectedFeatures ==
    {RawNoGeometry, RawLineString, RawBadCoordinates, RawEmptyPolygon, RawBadProperty}

FeatureLists ==
    UNION {[1..n -> ValidFeatures \cup RejectedFeatures] : n \in 0..MaxFeatures}
Documents ==
    {Document("Malformed", <<>>), Document("Feature", <<RawRect>>),
     Document("Geometry", <<>>)}
      \cup {Document("FeatureCollection", fs) : fs \in FeatureLists}

\* ------------------------------------------------- the index on disk
\* a call that did not return: an unwrap or expect panicked
Panicked == [ok |-> None, err |-> None]
panicked(r) == is_none(r.ok) /\ is_none(r.err)

\* Box<bincode::ErrorKind>
BincodeError(kind) == [kind |-> kind, detail |-> ""]

RECURSIVE SetToSeq(_)
SetToSeq(S) ==
    IF S = {} THEN <<>>
    ELSE LET x == CHOOSE x \in S : TRUE IN <<x>> \o SetToSeq(S \ {x})

\* a Vec or a map on the wire: its length, then its items
Prefixed(items) == <<Len(items), items>>

\* derive(Serialize) for Area: the variant index, then the variant's value
serialize_area(area) ==
    CASE area.kind = "Polygon" -> <<0, Prefixed(area.ring)>>
      [] area.kind = "MultiPolygon" ->
            <<1, Prefixed([i \in 1..Len(area.polys) |-> Prefixed(area.polys[i])])>>
      [] area.kind = "Point" -> <<2, Prefixed(<<(<<area.x, area.y>>)>>)>>

\* PropertyMap on the wire: its pairs in the map's iteration order
serialize_properties(props) ==
    Prefixed([i \in 1..Cardinality(DOMAIN props) |->
                 <<SetToSeq(DOMAIN props)[i], props[SetToSeq(DOMAIN props)[i]]>>])

\* derive(Serialize) for IndexablePolygon: its fields in declaration order
serialize_polygon(f) ==
    <<(<<f.bbox.min, f.bbox.max>>), serialize_area(f.area),
      serialize_properties(f.properties)>>

\* bincode::serialize_into for PolygonFinder: the tree, then neighbors_tests
serialize(finder) ==
    <<Prefixed([i \in 1..Len(finder.tree) |-> serialize_polygon(finder.tree[i])]),
      finder.neighbors_tests>>

\* what a write that failed on the way left in the file
truncated(bytes) == <<bytes[1]>>

deserialize_area(e) ==
    CASE e[1] = 0 -> Polygon(e[2][2])
      [] e[1] = 1 -> MultiPolygon([i \in 1..e[2][1] |-> e[2][2][i][2]])
      [] e[1] = 2 -> Point(e[2][2][1][1], e[2][2][1][2])

deserialize_properties(e) ==
    [k \in {e[2][i][1] : i \in 1..e[1]} |->
        (CHOOSE pair \in Range(e[2]) : pair[1] = k)[2]]

\* derive(Deserialize) for IndexablePolygon keeping no property
deserialize_polygon_no_properties(e) ==
    [bbox |-> Rect(e[1][1][1], e[1][1][2], e[1][2][1], e[1][2][2]),
     area |-> deserialize_area(e[2]),
     properties |-> [k \in {} |-> ""]]

\* derive(Deserialize) for IndexablePolygon
deserialize_polygon(e) ==
    [bbox |-> Rect(e[1][1][1], e[1][1][2], e[1][2][1], e[1][2][2]),
     area |-> deserialize_area(e[2]),
     properties |-> deserialize_properties(e[3])]

\* bincode::deserialize_from: a file that ends early is an Io error
deserialize(bytes) ==
    IF Len(bytes) < 2 THEN Err(BincodeError("Io"))
    ELSE Ok(PolygonFinder([i \in 1..bytes[1][1] |-> deserialize_polygon(bytes[1][2][i])],
                          bytes[2]))

\* PolygonFinder::new: File::open(..).unwrap() panics when the file cannot be
\* opened; the result of read_to_string is dropped, so after a failed read the
\* text parsed is the part that was read, which is no JSON document
new(file, read_ok) ==
    IF is_none(file) THEN Panicked
    ELSE IF ~read_ok THEN new_from_string(Document("Malformed", <<>>))
    ELSE new_from_string(unwrap(file))

\* create_geo_index
create_geo_index(file, read_ok) == new(file, read_ok)

\* save_geo_index: the file afterwards and whether the call returned;
\* File::create(..).unwrap() and serialize_into(..).unwrap() panic on failure
save_geo_index(finder, file, create_ok, write_ok) ==
    IF ~create_ok THEN [file |-> file, returned |-> FALSE]
    ELSE IF ~write_ok
    THEN [file |-> Some(truncated(serialize(finder))), returned |-> FALSE]
    ELSE [file |-> Some(serialize(finder)), returned |-> TRUE]

\* load_geo_index: File::open(..)? and the deserializer's result
load_geo_index(file, read_ok) ==
    IF is_none(file) \/ ~read_ok THEN Err(BincodeError("Io"))
    ELSE deserialize(unwrap(file))

\* the features of a tree as the objects nearest_n_neighbors ranks
objects(t) ==
    {[id |-> i, bbox |-> t[i].bbox, area |-> t[i].area, properties |-> t[i].properties] :
        i \in 1..Len(t)}

\* what find_by_point can return on a finder for a point
find_results(finder, point) ==
    {find_by_point(results, point).result :
        results \in nearest_n_neighbors(objects(finder.tree), point,
                                        finder.neighbors_tests)}

\* ------------------------------------------------------- the commands
\* one run of the tool: the subcommand, the I/O failure it met ("none" when it
\* met none), how far it got, the index it built or loaded, the error do_main
\* returned and the exit code of the process
Run(command, io, step, finder, error, exit_code) ==
    [command |-> command, io |-> io, step |-> step, index |-> finder,
     error |-> error, exit_code |-> exit_code]

\* main: exit(1) when do_main returned an error, 0 when it returned Ok; a
\* panic ends the process with the runtime's code 101
exit_code_of(do_main_result) ==
    IF panicked(do_main_result) THEN 101
    ELSE IF is_err(do_main_result) THEN 1 ELSE 0

\* csv::Error as spatial_polygons_join returns it
CsvError == [kind |-> "Csv", detail |-> ""]

\* create_geo_index_command under main, for the run's outcomes of the I/O calls
create_geo_index_command(force, read_ok, create_ok, write_ok) ==
    IF is_some(index_file) /\ ~force
    THEN /\ run' = Some(Run("generate_index", "none", "skipped", None, None,
                            exit_code_of(Ok("unit"))))
         /\ index_file' = index_file
    ELSE LET finder_result == create_geo_index(geojson_file, read_ok)
             io == IF is_none(geojson_file) THEN "open_geojson"
                   ELSE IF ~read_ok THEN "read_geojson" ELSE "none"
         IN  IF panicked(finder_result)
             THEN /\ run' = Some(Run("generate_index", io, "build_panicked", None, None,
                                     exit_code_of(Panicked)))
                  /\ index_file' = index_file
             ELSE IF is_err(finder_result)
             THEN /\ run' = Some(Run("generate_index", io, "build_failed", None, None,
                                     exit_code_of(Ok("unit"))))
                  /\ index_file' = index_file
             ELSE LET finder == unwrap(finder_result.ok)
                      saved == save_geo_index(finder, index_file, create_ok, write_ok)
                  IN  /\ index_file' = saved.file
                      /\ run' = Some(
                            IF saved.returned
                            THEN Run("generate_index", "none", "saved", Some(finder), None,
                                     exit_code_of(Ok("unit")))
                            ELSE Run("generate_index",
                                     IF create_ok THEN "write_index" ELSE "create_index",
                                     "save_panicked", Some(finder), None,
                                     exit_code_of(Panicked)))

\* generate_index: one run of the subcommand
GenerateIndex ==
    /\ \E force \in BOOLEAN, read_ok \in BOOLEAN, create_ok \in BOOLEAN,
          write_ok \in BOOLEAN :
          create_geo_index_command(force, read_ok, create_ok, write_ok)
    /\ UNCHANGED <<geojson_file, threads, index, query, args, join>>

\* join: one run of the subcommand; source is the argument that names the
\* index ("index", "geo-file", or "none" when neither is given), process_ok
\* whether spatial_polygons_join returned Ok
join_run(source, read_ok, process_ok) ==
    IF source = "none"
    THEN Run("join", "none", "no_index_argument", None, None, 1)
    ELSE LET geo_index == IF source = "index" THEN load_geo_index(index_file, read_ok)
                          ELSE create_geo_index(geojson_file, read_ok)
             io == IF source = "index"
                   THEN IF is_none(index_file) THEN "open_index"
                        ELSE IF ~read_ok THEN "read_index" ELSE "none"
                   ELSE IF is_none(geojson_file) THEN "open_geojson"
                        ELSE IF ~read_ok THEN "read_geojson" ELSE "none"
         IN  IF panicked(geo_index)
             THEN Run("join", io, "build_panicked", None, None,
                      exit_code_of(Panicked))
             ELSE IF is_err(geo_index)
             THEN Run("join", io, IF source = "index" THEN "load_failed" ELSE "build_failed",
                      None, geo_index.err, exit_code_of(geo_index))
             ELSE IF process_ok
             THEN Run("join", io, IF source = "index" THEN "joined_loaded" ELSE "joined_built",
                      geo_index.ok, None, exit_code_of(Ok("unit")))
             ELSE Run("join", io, "join_failed", geo_index.ok,
                      Some(CsvError), exit_code_of(Err(CsvError)))

Join ==
    /\ \E source \in {"index", "geo-file", "none"}, read_ok \in BOOLEAN,
          process_ok \in BOOLEAN :
          run' = Some(join_run(source, read_ok, process_ok))
    /\ UNCHANGED <<geojson_file, index_file, threads, index, query, args, join>>

\* the tool before its first run, for any GeoJSON file
ToolInit ==
    /\ geojson_file \in {None} \cup {Some(d) : d \in Documents}
    /\ index_file = None
    /\ run = None
    /\ threads = <<>>
    /\ tree = {}
    /\ neighbors_tests = DefaultNeighborsTests
    /\ query = None
    /\ latitude_idx = 0
    /\ longitude_idx = 1
    /\ properties = <<"a">>
    /\ no_header = FALSE
    /\ write_status = FALSE
    /\ JoinIdle

ToolNext == GenerateIndex \/ Join

ToolSpec == ToolInit /\ [][ToolNext]_vars

LastRun == unwrap(run)

Doc == unwrap(geojson_file)

rejected(feature) == is_err(IndexablePolygon_new(feature))

\* the first feature of the list that IndexablePolygon::new rejects
FirstRejected(features) ==
    features[CHOOSE i \in 1..Len(features) :
                /\ rejected(features[i])
                /\ \A j \in 1..(i - 1) : ~rejected(features[j])]

\* a run that read the GeoJSON file without an I/O failure and built from it
BuiltFromGeoJson ==
    /\ is_some(run)
    /\ LastRun.io = "none"
    /\ LastRun.step \in {"build_failed", "saved", "joined_built", "join_failed"}

\* C12: when a feature of the FeatureCollection is rejected, the build returns
\* the error of the first rejected feature and no index: nothing is saved by
\* generate_index, nothing is joined against, and the index file stays absent.
FailFastIngest ==
    (/\ is_some(geojson_file)
     /\ Doc.kind = "FeatureCollection"
     /\ \E i \in 1..Len(Doc.features) : rejected(Doc.features[i]))
    => /\ new_from_string(Doc) = IndexablePolygon_new(FirstRejected(Doc.features))
       /\ index_file = None
       /\ BuiltFromGeoJson =>
             /\ LastRun.step = "build_failed"
             /\ LastRun.index = None
             /\ LastRun.command = "join" =>
                   LastRun.error = IndexablePolygon_new(FirstRejected(Doc.features)).err

\* a generate_index run failed on a collection whose first feature is valid
\* and whose second is rejected
FailFastIngestWitness ==
    /\ is_some(geojson_file)
    /\ Doc.kind = "FeatureCollection"
    /\ Len(Doc.features) = 2
    /\ ~rejected(Doc.features[1])
    /\ rejected(Doc.features[2])
    /\ BuiltFromGeoJson
    /\ LastRun.command = "generate_index"
    /\ LastRun.step = "build_failed"

\* C13: a document that is GeoJSON but no FeatureCollection fails with
\* FeatureCollectionNotFound, a document that is no JSON fails with Parse, and
\* a join run that builds from either returns that error.
NotAFeatureCollection ==
    (is_some(geojson_file) /\ Doc.kind # "FeatureCollection")
    => /\ Doc.kind = "Malformed" =>
             new_from_string(Doc) = Err(PolygonFinderError("Parse", ""))
       /\ Doc.kind # "Malformed" =>
             new_from_string(Doc) = Err(PolygonFinderError("FeatureCollectionNotFound", ""))
       /\ (BuiltFromGeoJson /\ LastRun.command = "join") =>
             /\ LastRun.step = "build_failed"
             /\ unwrap(LastRun.error).kind
                   = IF Doc.kind = "Malformed" THEN "Parse"
                     ELSE "FeatureCollectionNotFound"

\* a join run was given a single Feature and failed with FeatureCollectionNotFound
NotAFeatureCollectionWitness ==
    /\ is_some(geojson_file)
    /\ Doc.kind = "Feature"
    /\ BuiltFromGeoJson
    /\ LastRun.command = "join"
    /\ LastRun.error = Some(PolygonFinderError("FeatureCollectionNotFound", ""))

\* the features of the FeatureCollection in the GeoJSON file
Features == Doc.features

\* the property map IndexablePolygon::new is to keep for a feature
normalized(feature) ==
    [k \in DOMAIN unwrap_or_default(feature.properties) |->
        IF unwrap_or_default(feature.properties)[k].t = "String"
        THEN unwrap_or_default(feature.properties)[k].s
        ELSE number_to_string(unwrap_or_default(feature.properties)[k].n)]

\* a run holds the index it built from the GeoJSON file
HoldsBuiltIndex ==
    /\ BuiltFromGeoJson
    /\ LastRun.step \in {"saved", "joined_built"}

BuiltIndex == unwrap(LastRun.index)

\* C14: an index built from a FeatureCollection holds one indexed feature per
\* feature of the collection, in the same order, with the feature's geometry
\* and with the feature's property keys, string values kept and numeric values
\* replaced by their decimal text.
IndexContents ==
    HoldsBuiltIndex
    => /\ Doc.kind = "FeatureCollection"
       /\ Len(BuiltIndex.tree) = Len(Features)
       /\ Cardinality(objects(BuiltIndex.tree)) = Len(Features)
       /\ \A i \in 1..Len(Features) :
             /\ BuiltIndex.tree[i].area = unwrap(Features[i].geometry).area
             /\ BuiltIndex.tree[i].properties = normalized(Features[i])
             /\ \A k \in DOMAIN BuiltIndex.tree[i].properties :
                   /\ unwrap(Features[i].properties)[k].t = "Number" =>
                         BuiltIndex.tree[i].properties[k] \in {"7", "28989"}
                   /\ unwrap(Features[i].properties)[k].t = "String" =>
                         BuiltIndex.tree[i].properties[k]
                            = unwrap(Features[i].properties)[k].s

\* an index was built and saved from two features, one with the number 28989
\* among its properties and one without properties
IndexContentsWitness ==
    /\ HoldsBuiltIndex
    /\ LastRun.step = "saved"
    /\ Features = <<RawZip, RawNoProperties>>
    /\ BuiltIndex.tree[1].properties["zip"] = "28989"
    /\ DOMAIN BuiltIndex.tree[2].properties = {}

\* ------------------------------------------------------- run claims
\* a run ended with an error it did not recover from: the index could not be
\* built, loaded or saved, no index was named, or the join returned an error
UnrecoveredError ==
    LastRun.step \in {"build_failed", "build_panicked", "save_panicked",
                      "load_failed", "no_index_argument", "join_failed"}

\* C15: a run that ends with an unrecovered error has exit code 1, and a run
\* has exit code 0 only when it succeeded.
ExitCodeOneOnError ==
    is_some(run) =>
        /\ UnrecoveredError => LastRun.exit_code = 1
        /\ LastRun.exit_code = 0 => ~UnrecoveredError

\* the run met a failure of an I/O call on the GeoJSON file or the index file
IoFailure == LastRun.io # "none"

\* C16: a run that meets an I/O failure on the GeoJSON file or on the index
\* file does not panic, and the error a join run returns for it is the I/O
\* error, not an error about the part of the input that was read.
IoFailureSurfaced ==
    (is_some(run) /\ IoFailure) =>
        /\ LastRun.step \notin {"build_panicked", "save_panicked"}
        /\ LastRun.command = "join" =>
              /\ is_some(LastRun.error)
              /\ unwrap(LastRun.error).kind = "Io"

\* ------------------------------------------------- find calls of threads
\* a thread holding &PolygonFinder: where it is in find_by_point, the point,
\* the candidates nearest_n_neighbors gave it, the candidate it is at, what it
\* returned, and whether another thread was inside find_by_point meanwhile
Thread(at, point, results, i, out, overlapped) ==
    [pc |-> at, point |-> point, results |-> results, i |-> i, out |-> out,
     overlapped |-> overlapped]

IdleThread == Thread("idle", <<0, 0>>, <<>>, 0, None, FALSE)

\* the points the threads ask for
ThreadPoints == {<<2, 1>>, <<3, 1>>, <<3, 3>>, <<1, 3>>}

\* one iteration of the for loop returning the candidate whose bounding box
\* holds the point
find_step_bbox_only(th, overlapped) ==
    IF th.i > Len(th.results)
    THEN Thread("done", th.point, th.results, th.i, None, overlapped)
    ELSE IF ~contains_point(th.results[th.i].bbox, th.point)
    THEN Thread("done", th.point, th.results, th.i, None, overlapped)
    ELSE Thread("done", th.point, th.results, th.i,
                Some([props |-> th.results[th.i].properties, distance |-> 0]),
                overlapped)

\* one iteration of the for loop of find_by_point, or its end
find_step(th, overlapped) ==
    IF th.i > Len(th.results)
    THEN Thread("done", th.point, th.results, th.i, None, overlapped)
    ELSE IF ~contains_point(th.results[th.i].bbox, th.point)
    THEN Thread("done", th.point, th.results, th.i, None, overlapped)
    ELSE IF contains_exact(th.results[th.i].area, th.point)
    THEN Thread("done", th.point, th.results, th.i,
                Some([props |-> th.results[th.i].properties, distance |-> 0]),
                overlapped)
    ELSE Thread("loop", th.point, th.results, th.i + 1, None, overlapped)

OthersInside(t) == \E u \in DOMAIN threads : u # t /\ threads[u].pc = "loop"

\* a thread calls find_by_point: it reads the tree for the nearest candidates
Call ==
    /\ \E t \in DOMAIN threads :
          /\ threads[t].pc = "idle"
          /\ \E point \in ThreadPoints :
                \E results \in nearest_n_neighbors(tree, point, neighbors_tests) :
                   threads' = [threads EXCEPT
                                  ![t] = Thread("loop", point, results, 1, None,
                                                OthersInside(t))]
    /\ UNCHANGED <<tool, index, query, args, join>>

\* a thread inside find_by_point tests its next candidate
Step ==
    /\ \E t \in DOMAIN threads :
          /\ threads[t].pc = "loop"
          /\ threads' = [threads EXCEPT
                            ![t] = find_step(threads[t],
                                             threads[t].overlapped \/ OthersInside(t))]
    /\ UNCHANGED <<tool, index, query, args, join>>

\* threads sharing one index that was built or loaded
InitThreads ==
    /\ tree \in {{RectFeature, TriFeature}, Catalogue}
    /\ neighbors_tests \in {2, DefaultNeighborsTests}
    /\ query = None
    /\ latitude_idx = 0
    /\ longitude_idx = 1
    /\ properties = <<"a">>
    /\ no_header = FALSE
    /\ write_status = FALSE
    /\ geojson_file = None
    /\ index_file = None
    /\ run = None
    /\ threads = [t \in 1..MaxThreads |-> IdleThread]
    /\ JoinIdle

NextThreads == Call \/ Step

ThreadSpec == InitThreads /\ [][NextThreads]_vars

\* C17: no step of a find call changes the index, and every find call that
\* returned while other threads were calling find on the same index returned
\* what find_by_point returns for its candidates when it runs alone.
ConcurrentFinds ==
    /\ [][index' = index]_vars
    /\ [](\A t \in DOMAIN threads :
            threads[t].pc = "done" =>
               /\ threads[t].results
                     \in nearest_n_neighbors(tree, threads[t].point, neighbors_tests)
               /\ threads[t].out
                     = find_by_point(threads[t].results, threads[t].point).result)

\* two threads were inside find_by_point at the same time; one returned a hit
\* after an exact test that failed, the other returned None
ConcurrentFindsWitness ==
    \E t, u \in DOMAIN threads :
        /\ threads[t].pc = "done" /\ threads[u].pc = "done"
        /\ threads[t].overlapped /\ threads[u].overlapped
        /\ is_some(threads[t].out) /\ threads[t].i = 2
        /\ is_none(threads[u].out)

\* ------------------------------------------------- candidate order claims
\* the features of the index whose MBR holds the point
MbrHolders(point) == {f \in tree : contains_point(f.bbox, point)}

\* the candidates the last call tested exactly
Tested == {unwrap(query).results[i] : i \in 1..QueryOut.exact_tests}

\* the last call returned None at a candidate whose MBR misses the point
EndedAtMbrMiss ==
    /\ is_some(query)
    /\ is_none(QueryOut.result)
    /\ QueryOut.mbr_checks = QueryOut.exact_tests + 1

\* C18: the candidates come in non-decreasing MBR distance, so a candidate
\* whose MBR holds the point is never behind one whose MBR misses it; and when
\* find returns None at a candidate whose MBR misses the point, every feature
\* whose MBR holds the point was tested and no feature contains the point.
EarlyOutValid ==
    is_some(query) =>
        /\ \A i, j \in 1..Len(unwrap(query).results) :
              (i < j /\ contains_point(unwrap(query).results[j].bbox, QueryPoint))
                 => contains_point(unwrap(query).results[i].bbox, QueryPoint)
        /\ EndedAtMbrMiss =>
              /\ MbrHolders(QueryPoint) \subseteq Tested
              /\ \A f \in tree : ~contains_exact(f.area, QueryPoint)

\* find returned None at the third candidate, whose MBR misses the point, after
\* two candidates whose MBR holds it failed the exact test
EarlyOutValidWitness ==
    /\ EndedAtMbrMiss
    /\ QueryOut.exact_tests = 2
    /\ Cardinality(MbrHolders(QueryPoint)) = 2
    /\ Cardinality(tree) > 2

\* C19: when at most neighbors_tests features have an MBR that holds the point
\* and some feature contains the point, find returns a hit.
CompleteWithinFanOut ==
    (/\ is_some(query)
     /\ Cardinality(MbrHolders(QueryPoint)) <= neighbors_tests
     /\ \E f \in tree : contains_exact(f.area, QueryPoint))
    => is_some(QueryOut.result)

\* with neighbors_tests = 2 exactly two features have an MBR holding the point
\* and find returned the second after the first failed the exact test
CompleteWithinFanOutWitness ==
    /\ is_some(query)
    /\ neighbors_tests = 2
    /\ Cardinality(MbrHolders(QueryPoint)) = 2
    /\ is_some(QueryOut.result)
    /\ QueryOut.exact_tests = 2

====
